---------------------------- MODULE Spec2Model ----------------------------
(***************************************************************************)
(* A model of the table transformations of the EDA notes, the README and   *)
(* the tutorial notebook: the five-percent drop rule, imputation, the IQR  *)
(* outlier limits and filters, quartile binning and the duration cells.    *)
(*                                                                         *)
(* A table is a sequence of rows; a row is a record with the field idx     *)
(* (the pandas index label, kept by every filter) and one field per        *)
(* column.  A cell is a record [t, n, d, s]: a number n/d (an exact        *)
(* rational in lowest terms, t = "num"), a string (t = "str", s its        *)
(* characters) or the missing value NaN (t = "nan").                       *)
(***************************************************************************)
EXTENDS Integers, Sequences, FiniteSets, TLC

VARIABLES
    salaries,   \* the salaries DataFrame of the lecture notes
    planes,     \* the planes DataFrame of the notebook
    df,         \* the sample DataFrame of the notebook's first cell
    before,     \* the table as it was when the last operation started
    ns,         \* the names the snippets bind (Q1, Q3, lower_limit, ...)
    ran,        \* the operations (cells) executed so far
    err         \* "" or the exception the last operation raised

vars == <<salaries, planes, df, before, ns, ran, err>>

-----------------------------------------------------------------------------
(* Cells                                                                   *)

NaN == [t |-> "nan", n |-> 0, d |-> 0, s |-> <<>>]

RECURSIVE Gcd(_, _)
Gcd(a, b) == IF b = 0 THEN a ELSE Gcd(b, a % b)

Abs(x) == IF x < 0 THEN -x ELSE x

\* the number n/d (d > 0) in lowest terms
Num(n, d) ==
    LET g == Gcd(Abs(n), d)
    IN  [t |-> "num", n |-> n \div g, d |-> d \div g, s |-> <<>>]

Whole(n) == Num(n, 1)

Str(chars) == [t |-> "str", n |-> 0, d |-> 1, s |-> chars]

isna(x) == x.t = "nan"

\* float arithmetic: NaN propagates
Add(x, y) == IF isna(x) \/ isna(y) THEN NaN ELSE Num(x.n * y.d + y.n * x.d, x.d * y.d)

Sub(x, y) == IF isna(x) \/ isna(y) THEN NaN ELSE Num(x.n * y.d - y.n * x.d, x.d * y.d)

Mul(x, y) == IF isna(x) \/ isna(y) THEN NaN ELSE Num(x.n * y.n, x.d * y.d)

\* float comparisons: every comparison with NaN is False
Lt(x, y) == ~isna(x) /\ ~isna(y) /\ x.n * y.d < y.n * x.d

Gt(x, y) == Lt(y, x)

Le(x, y) == ~isna(x) /\ ~isna(y) /\ x.n * y.d <= y.n * x.d

Ge(x, y) == Le(y, x)

-----------------------------------------------------------------------------
(* Tables and columns                                                      *)

\* df[mask]: boolean indexing, the rows whose mask entry is True, in their
\* order, index labels kept
RECURSIVE BoolIndexFrom(_, _, _)
BoolIndexFrom(tbl, mask, i) ==
    IF i > Len(tbl) THEN <<>>
    ELSE IF mask[i] THEN <<tbl[i]>> \o BoolIndexFrom(tbl, mask, i + 1)
         ELSE BoolIndexFrom(tbl, mask, i + 1)

BoolIndex(tbl, mask) == BoolIndexFrom(tbl, mask, 1)

\* df[col] as a sequence of cells
Column(tbl, col) == [i \in 1..Len(tbl) |-> tbl[i][col]]

\* Series.dropna(): the non-missing cells of a column, in order
RECURSIVE NotNa(_)
NotNa(xs) ==
    IF xs = <<>> THEN <<>>
    ELSE IF isna(Head(xs)) THEN NotNa(Tail(xs))
         ELSE <<Head(xs)>> \o NotNa(Tail(xs))

RECURSIVE Insert(_, _)
Insert(x, sorted) ==
    IF sorted = <<>> THEN <<x>>
    ELSE IF Le(x, Head(sorted)) THEN <<x>> \o sorted
         ELSE <<Head(sorted)>> \o Insert(x, Tail(sorted))

\* the numbers of a sequence in ascending order
RECURSIVE Sort(_)
Sort(xs) == IF xs = <<>> THEN <<>> ELSE Insert(Head(xs), Sort(Tail(xs)))

Index(tbl) == {tbl[i].idx : i \in 1..Len(tbl)}

\* Series.isna().sum()
isna_sum(tbl, col) == Cardinality({i \in 1..Len(tbl) : isna(tbl[i][col])})

-----------------------------------------------------------------------------
(* Series.quantile(qn/qd), linear interpolation over the non-missing       *)
(* values: position h = (n - 1) * q, result x[lo] + (x[lo+1] - x[lo]) *    *)
(* frac; NaN for a column with no value.                                   *)

quantile(xs, qn, qd) ==
    LET x  == Sort(NotNa(xs))
        n  == Len(x)
        lo == ((n - 1) * qn) \div qd
        fr == Num(((n - 1) * qn) % qd, qd)
    IN  IF n = 0 THEN NaN
        ELSE IF lo + 2 > n THEN x[lo + 1]
        ELSE Add(x[lo + 1], Mul(Sub(x[lo + 2], x[lo + 1]), fr))

\* Series.median(): the middle value, or the mean of the two middle values
median(xs) ==
    LET x == Sort(NotNa(xs))
        n == Len(x)
    IN  IF n = 0 THEN NaN
        ELSE IF n % 2 = 1 THEN x[(n + 1) \div 2]
        ELSE Mul(Add(x[n \div 2], x[n \div 2 + 1]), Num(1, 2))

\* Series.max()
max(xs) ==
    LET x == Sort(NotNa(xs))
    IN  IF x = <<>> THEN NaN ELSE x[Len(x)]

-----------------------------------------------------------------------------
(* Handling outliers: the IQR limits and the three filters                 *)

MaxRowsOutlier == 5

MaxSalary == 2

\* the limits of "Calculating Outlier Thresholds": Q1, Q3, IQR = Q3 - Q1,
\* upper_limit = Q3 + 1.5 * IQR, lower_limit = Q1 - 1.5 * IQR
OutlierThresholds(tbl, col) ==
    LET Q1  == quantile(Column(tbl, col), 1, 4)
        Q3  == quantile(Column(tbl, col), 3, 4)
        IQR == Sub(Q3, Q1)
    IN  [Q1 |-> Q1, Q3 |-> Q3, IQR |-> IQR,
         upper_limit |-> Add(Q3, Mul(Num(3, 2), IQR)),
         lower_limit |-> Sub(Q1, Mul(Num(3, 2), IQR))]

\* variant of the detection mask that also flags the rows equal to a limit
OutlierMaskInclusive(tbl, col, lower, upper) ==
    [i \in 1..Len(tbl) |-> Le(tbl[i][col], lower) \/ Ge(tbl[i][col], upper)]

\* (df[col] < lower_limit) | (df[col] > upper_limit)
OutlierMask(tbl, col, lower, upper) ==
    [i \in 1..Len(tbl) |-> Lt(tbl[i][col], lower) \/ Gt(tbl[i][col], upper)]

\* variant of the removal mask with strict comparisons
CleanMaskStrict(tbl, col, lower, upper) ==
    [i \in 1..Len(tbl) |-> Gt(tbl[i][col], lower) /\ Lt(tbl[i][col], upper)]

\* variant of the removal mask written as the negation of the detection mask
CleanMaskNotOutlier(tbl, col, lower, upper) ==
    [i \in 1..Len(tbl) |-> ~(Lt(tbl[i][col], lower) \/ Gt(tbl[i][col], upper))]

\* README: (df[col] >= lower_limit) & (df[col] <= upper_limit)
CleanMask(tbl, col, lower, upper) ==
    [i \in 1..Len(tbl) |-> Ge(tbl[i][col], lower) /\ Le(tbl[i][col], upper)]

\* notes and notebook: (df[col] > lower_limit) & (df[col] < upper_limit)
NoOutliersMask(tbl, col, lower, upper) ==
    [i \in 1..Len(tbl) |-> Gt(tbl[i][col], lower) /\ Lt(tbl[i][col], upper)]

SalaryCells == {Whole(v) : v \in 0..MaxSalary} \cup {NaN}

NsOutlier0 ==
    [Q1 |-> NaN, Q3 |-> NaN, IQR |-> NaN, upper_limit |-> NaN, lower_limit |-> NaN,
     outliers |-> <<>>, df_clean |-> <<>>, salaries_no_outliers |-> <<>>]

InitOutlier ==
    /\ \E n \in 0..MaxRowsOutlier :
         \E f \in [1..n -> SalaryCells] :
            salaries = [i \in 1..n |-> [idx |-> i - 1, Salary_USD |-> f[i]]]
    /\ planes = <<>>
    /\ df = <<>>
    /\ before = salaries
    /\ ns = NsOutlier0
    /\ ran = {}
    /\ err = ""

\* notes 5: Calculating Outlier Thresholds (README: Detect Outliers, first lines)
CalculatingOutlierThresholds ==
    /\ "thresholds" \notin ran
    /\ LET lim == OutlierThresholds(salaries, "Salary_USD")
       IN  ns' = [ns EXCEPT !.Q1 = lim.Q1, !.Q3 = lim.Q3, !.IQR = lim.IQR,
                            !.upper_limit = lim.upper_limit,
                            !.lower_limit = lim.lower_limit]
    /\ ran' = ran \cup {"thresholds"}
    /\ UNCHANGED <<salaries, planes, df, before, err>>

\* notes 6: Identifying Outliers (README: outliers = df[...])
IdentifyingOutliers ==
    /\ "thresholds" \in ran
    /\ "outliers" \notin ran
    /\ ns' = [ns EXCEPT !.outliers =
                 BoolIndex(salaries, OutlierMask(salaries, "Salary_USD",
                                                 ns.lower_limit, ns.upper_limit))]
    /\ ran' = ran \cup {"outliers"}
    /\ UNCHANGED <<salaries, planes, df, before, err>>

\* README: Remove Outliers
RemoveOutliers ==
    /\ "thresholds" \in ran
    /\ "df_clean" \notin ran
    /\ ns' = [ns EXCEPT !.df_clean =
                 BoolIndex(salaries, CleanMask(salaries, "Salary_USD",
                                               ns.lower_limit, ns.upper_limit))]
    /\ ran' = ran \cup {"df_clean"}
    /\ UNCHANGED <<salaries, planes, df, before, err>>

\* notes 9: Dropping Outliers
DroppingOutliers ==
    /\ "thresholds" \in ran
    /\ "salaries_no_outliers" \notin ran
    /\ ns' = [ns EXCEPT !.salaries_no_outliers =
                 BoolIndex(salaries, NoOutliersMask(salaries, "Salary_USD",
                                                    ns.lower_limit, ns.upper_limit))]
    /\ ran' = ran \cup {"salaries_no_outliers"}
    /\ UNCHANGED <<salaries, planes, df, before, err>>

NextOutlier ==
    \/ CalculatingOutlierThresholds
    \/ IdentifyingOutliers
    \/ RemoveOutliers
    \/ DroppingOutliers

SpecOutlier == InitOutlier /\ [][NextOutlier]_vars

-----------------------------------------------------------------------------
(* Claims about the IQR limits and the outlier filters.  The percentiles   *)
(* are restated here by rank: Kth is the k-th smallest observed value, and *)
(* Quartile4 is four times the q-th quartile (q = 1, 3), an integer for a  *)
(* column of whole numbers.                                                *)

Observed(tbl, col) == {i \in 1..Len(tbl) : ~isna(tbl[i][col])}

CountBelow(tbl, col, v) == Cardinality({i \in Observed(tbl, col) : tbl[i][col].n < v})

CountUpTo(tbl, col, v) == Cardinality({i \in Observed(tbl, col) : tbl[i][col].n <= v})

Kth(tbl, col, k) ==
    CHOOSE v \in {tbl[i][col].n : i \in Observed(tbl, col)} :
        CountBelow(tbl, col, v) < k /\ k <= CountUpTo(tbl, col, v)

Quartile4(tbl, col, q) ==
    LET n  == Cardinality(Observed(tbl, col))
        lo == ((n - 1) * q) \div 4
        r  == ((n - 1) * q) % 4
        a  == Kth(tbl, col, lo + 1)
        b  == IF r = 0 THEN a ELSE Kth(tbl, col, lo + 2)
    IN  4 * a + r * (b - a)

\* eight times the lower and the upper limit
Lower8(tbl, col) == 5 * Quartile4(tbl, col, 1) - 3 * Quartile4(tbl, col, 3)

Upper8(tbl, col) == 5 * Quartile4(tbl, col, 3) - 3 * Quartile4(tbl, col, 1)

\* the rows of sub are rows of df, each at most once
SubTable(sub, tbl) ==
    /\ \A i \in 1..Len(sub) : \E j \in 1..Len(tbl) : sub[i] = tbl[j]
    /\ Cardinality(Index(sub)) = Len(sub)

\* C1: once the thresholds are calculated, lower_limit = Q1 - 1.5 * (Q3 - Q1)
\* and upper_limit = Q3 + 1.5 * (Q3 - Q1) for the 25th and 75th percentiles
\* Q1 and Q3 of the column, and the outliers table holds exactly the rows
\* whose value is strictly below lower_limit or strictly above upper_limit.
C1_IqrLimits ==
    /\ ("thresholds" \in ran /\ Observed(salaries, "Salary_USD") # {}) =>
          /\ ns.lower_limit = Num(Lower8(salaries, "Salary_USD"), 8)
          /\ ns.upper_limit = Num(Upper8(salaries, "Salary_USD"), 8)
    /\ "outliers" \in ran =>
          /\ SubTable(ns.outliers, salaries)
          /\ Index(ns.outliers) =
                {salaries[i].idx : i \in
                    {j \in Observed(salaries, "Salary_USD") :
                        \/ 8 * salaries[j].Salary_USD.n < Lower8(salaries, "Salary_USD")
                        \/ 8 * salaries[j].Salary_USD.n > Upper8(salaries, "Salary_USD")}}

\* an interpolated quartile, a reported outlier and a row that is not one
C1_Witness ==
    /\ "outliers" \in ran
    /\ ns.Q1.d > 1
    /\ ns.outliers # <<>>
    /\ Len(ns.outliers) < Len(salaries)

\* C6: for a column without missing values, every row is in exactly one of
\* the README's outliers and df_clean.
C6_Complementary ==
    ({"outliers", "df_clean"} \subseteq ran /\ isna_sum(salaries, "Salary_USD") = 0) =>
        /\ SubTable(ns.outliers, salaries)
        /\ SubTable(ns.df_clean, salaries)
        /\ Index(ns.outliers) \cap Index(ns.df_clean) = {}
        /\ Index(ns.outliers) \cup Index(ns.df_clean) = Index(salaries)

\* both tables non-empty and a row exactly on a limit
C6_Witness ==
    /\ {"outliers", "df_clean"} \subseteq ran
    /\ isna_sum(salaries, "Salary_USD") = 0
    /\ ns.outliers # <<>>
    /\ \E i \in 1..Len(ns.df_clean) :
          ns.df_clean[i].Salary_USD \in {ns.lower_limit, ns.upper_limit}

\* C7: for a column without missing values, salaries_no_outliers and outliers
\* together contain every row of the input exactly once.
C7_KeptAndOutliersPartition ==
    ({"outliers", "salaries_no_outliers"} \subseteq ran
        /\ isna_sum(salaries, "Salary_USD") = 0) =>
        /\ Index(ns.outliers) \cap Index(ns.salaries_no_outliers) = {}
        /\ Index(ns.outliers) \cup Index(ns.salaries_no_outliers) = Index(salaries)

-----------------------------------------------------------------------------
(* Dealing with missing data: the five-percent rule                        *)

MaxPad == 40

MaxMissRows == 3

PlanesColumns == {"Airline", "Additional_Info", "Price"}

\* variant of the threshold at one percent of the rows
OnePercent(tbl) == Mul(Whole(Len(tbl)), Num(1, 100))

\* threshold = len(planes) * 0.05
FivePercent(tbl) == Mul(Whole(Len(tbl)), Num(5, 100))

\* variant of cols_to_drop with a strict comparison against the threshold
ColsBelowThreshold(tbl, columns, threshold) ==
    {c \in columns : Lt(Whole(isna_sum(tbl, c)), threshold)}

\* cols_to_drop = planes.columns[planes.isna().sum() <= threshold]
ColsToDrop(tbl, columns, threshold) ==
    {c \in columns : Le(Whole(isna_sum(tbl, c)), threshold)}

\* DataFrame.dropna(subset=..., how="all"): drop the rows missing in every column of subset
dropna_all(tbl, subset) ==
    BoolIndex(tbl, [i \in 1..Len(tbl) |-> subset = {} \/ \E c \in subset : ~isna(tbl[i][c])])

\* variant that blanks the incomplete rows instead of dropping them
dropna_blank(tbl, subset) ==
    [i \in 1..Len(tbl) |->
        IF \A c \in subset : ~isna(tbl[i][c]) THEN tbl[i]
        ELSE [c \in DOMAIN tbl[i] |-> IF c = "idx" THEN tbl[i].idx ELSE NaN]]

\* DataFrame.dropna(subset=...): drop the rows with a missing value in any
\* column of subset (how="any"); an empty subset drops nothing
dropna(tbl, subset) ==
    BoolIndex(tbl, [i \in 1..Len(tbl) |-> \A c \in subset : ~isna(tbl[i][c])])

\* a row of planes; missing is the set of its columns that hold NaN
PlanesRow(i, missing) ==
    [idx |-> i,
     Airline |-> Str(<<"A">>),
     Additional_Info |-> IF "Additional_Info" \in missing THEN NaN ELSE Str(<<"N">>),
     Price |-> IF "Price" \in missing THEN NaN ELSE Whole(1)]

InitMissing ==
    /\ \E k \in 0..MaxMissRows, pad \in 0..MaxPad :
         \E m \in [1..k -> SUBSET {"Additional_Info", "Price"}] :
            planes = [i \in 1..(k + pad) |->
                        PlanesRow(i - 1, IF i <= k THEN m[i] ELSE {})]
    /\ salaries = <<>>
    /\ df = <<>>
    /\ before = planes
    /\ ns = [threshold |-> NaN, cols_to_drop |-> {}]
    /\ ran = {}
    /\ err = ""

\* notebook cell "Dealing with missing data" (notes 7-8: Dropping Missing
\* Values); the cell may be executed again on the table it produced
DealingWithMissingData ==
    /\ "dropna again" \notin ran
    /\ LET threshold    == FivePercent(planes)
           cols_to_drop == ColsToDrop(planes, PlanesColumns, threshold)
       IN  /\ ns' = [threshold |-> threshold, cols_to_drop |-> cols_to_drop]
           /\ planes' = dropna(planes, cols_to_drop)
    /\ before' = planes
    /\ ran' = IF "dropna" \in ran THEN ran \cup {"dropna again"} ELSE {"dropna"}
    /\ UNCHANGED <<salaries, df, err>>

NextMissing == DealingWithMissingData

SpecMissing == InitMissing /\ [][NextMissing]_vars

\* the position in df of the row with index label id
Pos(tbl, id) == CHOOSE j \in 1..Len(tbl) : tbl[j].idx = id

\* the rows of sub are rows of df in the order they have in df
InOrder(sub, tbl) ==
    /\ Index(sub) \subseteq Index(tbl)
    /\ \A i \in 1..Len(sub) : sub[i] = tbl[Pos(tbl, sub[i].idx)]
    /\ \A i \in 1..(Len(sub) - 1) : Pos(tbl, sub[i].idx) < Pos(tbl, sub[i + 1].idx)

\* the columns whose missing count is at most 5% of the rows (20 * count <= rows)
AtMostFivePercent(tbl) == {c \in PlanesColumns : 20 * isna_sum(tbl, c) <= Len(tbl)}

\* C2: after the drop every column whose missing count was at most five
\* percent of the row count (boundary included) has no missing value, and the
\* rows removed are exactly those with a missing value in such a column.
C2_FivePercentRule ==
    "dropna" \in ran =>
        /\ ns.cols_to_drop = AtMostFivePercent(before)
        /\ \A c \in AtMostFivePercent(before) : isna_sum(planes, c) = 0
        /\ InOrder(planes, before)
        /\ Index(before) \ Index(planes) =
              {before[i].idx : i \in
                  {j \in 1..Len(before) :
                      \E c \in AtMostFivePercent(before) : isna(before[j][c])}}

\* a column exactly on the threshold is cleaned, one above it keeps its NaN
C2_Witness ==
    /\ ran = {"dropna"}
    /\ \E c \in PlanesColumns :
          /\ isna_sum(before, c) > 0
          /\ 20 * isna_sum(before, c) = Len(before)
          /\ isna_sum(planes, c) = 0
    /\ \E c \in PlanesColumns : isna_sum(planes, c) > 0

-----------------------------------------------------------------------------
(* Imputation: by sub-group median, by mode and by mean                    *)

MaxRowsImpute == 3

\* the characters the model's strings use, in code-point order
Chars == <<" ", "-", "0", "1", "2", "3", "4", "5", "6", "7", "8", "9",
           "A", "B", "C", "D", "E", "F", "H", "I", "N", "R", "S", "T", "U",
           "a", "b", "c", "d", "e", "h", "i", "k", "l", "m", "n", "o", "p", "r",
           "s", "t", "v", "w">>

Ord(c) == CHOOSE k \in 1..Len(Chars) : Chars[k] = c

\* Python's string order
RECURSIVE StrLe(_, _)
StrLe(a, b) ==
    IF a = <<>> THEN TRUE
    ELSE IF b = <<>> THEN FALSE
    ELSE IF Head(a) = Head(b) THEN StrLe(Tail(a), Tail(b))
    ELSE Ord(Head(a)) < Ord(Head(b))

CellLe(x, y) == IF x.t = "num" THEN Le(x, y) ELSE StrLe(x.s, y.s)

Count(xs, v) == Cardinality({i \in 1..Len(xs) : xs[i] = v})

\* Series.mode(): the most frequent non-missing values, sorted; empty for a
\* column with no value
ModeValues(xs) ==
    {v \in {xs[i] : i \in 1..Len(xs)} :
        ~isna(v) /\ \A j \in 1..Len(xs) : isna(xs[j]) \/ Count(xs, xs[j]) <= Count(xs, v)}

\* Series.mode()[0]
Mode0(xs) == CHOOSE v \in ModeValues(xs) : \A w \in ModeValues(xs) : CellLe(v, w)

RECURSIVE Sum(_)
Sum(xs) == IF xs = <<>> THEN Whole(0) ELSE Add(Head(xs), Sum(Tail(xs)))

\* the mean of the non-missing values
mean(xs) ==
    LET x == NotNa(xs)
    IN  IF x = <<>> THEN NaN ELSE Mul(Sum(x), Num(1, Len(x)))

\* median with skipna=False: NaN as soon as one value is missing
medianNoSkip(xs) ==
    IF \E i \in 1..Len(xs) : isna(xs[i]) THEN NaN ELSE median(xs)

\* variant of the dictionary that gives every key the median of the whole column
MedianOfAll(tbl, key, col) ==
    [a \in {tbl[i][key] : i \in {j \in 1..Len(tbl) : ~isna(tbl[j][key])}} |->
        median(Column(tbl, col))]

\* variant of the dictionary built with skipna=False medians
GroupMedianNoSkip(tbl, key, col) ==
    [a \in {tbl[i][key] : i \in {j \in 1..Len(tbl) : ~isna(tbl[j][key])}} |->
        medianNoSkip(Column(BoolIndex(tbl, [i \in 1..Len(tbl) |-> tbl[i][key] = a]), col))]

\* df.groupby(key)[col].median().to_dict(): one entry per non-missing key,
\* the median of the group's non-missing values (NaN when it has none)
GroupMedian(tbl, key, col) ==
    [a \in {tbl[i][key] : i \in {j \in 1..Len(tbl) : ~isna(tbl[j][key])}} |->
        median(Column(BoolIndex(tbl, [i \in 1..Len(tbl) |-> tbl[i][key] = a]), col))]

\* Series.map(dict): NaN for a key the dict does not hold
MapDict(xs, dict) ==
    [i \in 1..Len(xs) |-> IF xs[i] \in DOMAIN dict THEN dict[xs[i]] ELSE NaN]

\* variant of fillna that takes the fill value in every row
fillnaOverwrite(xs, fill) == [i \in 1..Len(xs) |-> fill[i]]

\* Series.fillna(other Series): the aligned value where the cell is missing
fillna(xs, fill) == [i \in 1..Len(xs) |-> IF isna(xs[i]) THEN fill[i] ELSE xs[i]]

\* Series.fillna(scalar)
fillna_value(xs, v) == [i \in 1..Len(xs) |-> IF isna(xs[i]) THEN v ELSE xs[i]]

\* df[col] = values
SetColumn(table, col, xs) == [i \in 1..Len(table) |-> [table[i] EXCEPT ![col] = xs[i]]]

\* fillna(df[key].map(dict)) on column col
FillByGroup(table, key, col, dict) ==
    SetColumn(table, col, fillna(Column(table, col), MapDict(Column(table, key), dict)))

\* SimpleImputer(strategy='mean').fit_transform(df[[col]]): the column with
\* its missing cells replaced by the mean (the caller handles a column with
\* no observed value, which the imputer drops)
MeanImputed(table, col) ==
    SetColumn(table, col, fillna_value(Column(table, col), mean(Column(table, col))))

Unknown == Str(<<"U", "n", "k", "n", "o", "w", "n">>)

Keys == {Str(<<"A">>), Str(<<"B">>), NaN}

Amounts == {Whole(1), Whole(2), Whole(4), NaN}

SampleRows ==
    [Name : {Str(<<"A", "l", "i", "c", "e">>), NaN},
     Age : {Whole(25), Whole(40), NaN},
     Salary : {Whole(50000), NaN},
     Department : {Str(<<"H", "R">>)}]

InitImpute ==
    /\ \E n \in 0..MaxRowsImpute :
         \/ \E k \in [1..n -> Keys], v \in [1..n -> Amounts] :
               /\ planes = [i \in 1..n |-> [idx |-> i - 1, Airline |-> k[i], Price |-> v[i]]]
               /\ salaries = <<>>
               /\ df = <<>>
               /\ before = planes
               /\ ns = [dataset |-> "planes", dict |-> <<>>]
         \/ \E k \in [1..n -> Keys], v \in [1..n -> Amounts] :
               /\ salaries = [i \in 1..n |->
                                [idx |-> i - 1, Experience |-> k[i], Salary_USD |-> v[i]]]
               /\ planes = <<>>
               /\ df = <<>>
               /\ before = salaries
               /\ ns = [dataset |-> "salaries", dict |-> <<>>]
         \/ \E r \in [1..n -> SampleRows] :
               /\ df = [i \in 1..n |->
                          [idx |-> i - 1, Name |-> r[i].Name, Age |-> r[i].Age,
                           Salary |-> r[i].Salary, Department |-> r[i].Department]]
               /\ planes = <<>>
               /\ salaries = <<>>
               /\ before = df
               /\ ns = [dataset |-> "df", dict |-> <<>>]
    /\ ran = {}
    /\ err = ""

\* notebook cell "Imputing missing plane prices"
ImputingMissingPlanePrices ==
    /\ ns.dataset = "planes"
    /\ "prices" \notin ran
    /\ LET prices_dict == GroupMedian(planes, "Airline", "Price")
       IN  /\ ns' = [ns EXCEPT !.dict = prices_dict]
           /\ planes' = FillByGroup(planes, "Airline", "Price", prices_dict)
    /\ before' = planes
    /\ ran' = ran \cup {"prices"}
    /\ err' = ""
    /\ UNCHANGED <<salaries, df>>

\* notes 11-12: Imputing by Sub-group
ImputingBySubgroup ==
    /\ ns.dataset = "salaries"
    /\ "subgroup" \notin ran
    /\ LET median_salaries == GroupMedian(salaries, "Experience", "Salary_USD")
       IN  /\ ns' = [ns EXCEPT !.dict = median_salaries]
           /\ salaries' = FillByGroup(salaries, "Experience", "Salary_USD", median_salaries)
    /\ before' = salaries
    /\ ran' = ran \cup {"subgroup"}
    /\ err' = ""
    /\ UNCHANGED <<planes, df>>

\* notes 9: Imputing a Summary Statistic, the loop over the categorical
\* columns; mode()[0] of a column without a value raises.  The fill is an
\* inplace method on the selection salaries[col]: under Copy-on-Write it
\* leaves salaries as it is
ImputingSummaryStatistic ==
    /\ ns.dataset = "salaries"
    /\ "mode" \notin ran
    /\ \/ /\ ModeValues(Column(salaries, "Experience")) # {}
          /\ \/ salaries' = SetColumn(salaries, "Experience",
                               fillna_value(Column(salaries, "Experience"),
                                            Mode0(Column(salaries, "Experience"))))
             \/ salaries' = salaries
          /\ err' = ""
       \/ /\ ModeValues(Column(salaries, "Experience")) = {}
          /\ salaries' = salaries
          /\ err' = "KeyError"
    /\ before' = salaries
    /\ ran' = ran \cup {"mode"}
    /\ UNCHANGED <<planes, df, ns>>

\* first cell, "Handling Missing Data": mean-impute Age, then Salary, then
\* fill Name with 'Unknown'; assigning the imputer's output raises when the
\* imputer dropped a column without any observed value.  The fill is an
\* inplace method on the selection df['Name']: it reaches df when the
\* selection is a view of the column (pandas before 3.0) and fills a
\* temporary copy, leaving df as it is, under Copy-on-Write (pandas 3.0);
\* the notebook pins no version
HandlingMissingData ==
    /\ ns.dataset = "df"
    /\ "missing" \notin ran
    /\ \/ /\ NotNa(Column(df, "Age")) = <<>>
          /\ df' = df
          /\ err' = "ValueError"
       \/ /\ NotNa(Column(df, "Age")) # <<>>
          /\ NotNa(Column(df, "Salary")) = <<>>
          /\ df' = MeanImputed(df, "Age")
          /\ err' = "ValueError"
       \/ /\ NotNa(Column(df, "Age")) # <<>>
          /\ NotNa(Column(df, "Salary")) # <<>>
          /\ LET d1 == MeanImputed(df, "Age")
                 d2 == MeanImputed(d1, "Salary")
             IN  \/ df' = SetColumn(d2, "Name", fillna_value(Column(d2, "Name"), Unknown))
                 \/ df' = d2
          /\ err' = ""
    /\ before' = df
    /\ ran' = ran \cup {"missing"}
    /\ UNCHANGED <<planes, salaries, ns>>

NextImpute ==
    \/ ImputingMissingPlanePrices
    \/ ImputingBySubgroup
    \/ ImputingSummaryStatistic
    \/ HandlingMissingData

SpecImpute == InitImpute /\ [][NextImpute]_vars

-----------------------------------------------------------------------------
(* Claims about imputation.  A step is recognised by the name it adds to   *)
(* ran; the median is restated by rank.                                    *)

PricesStep == "prices" \in ran' /\ "prices" \notin ran

SubgroupStep == "subgroup" \in ran' /\ "subgroup" \notin ran

ModeStep == "mode" \in ran' /\ "mode" \notin ran

MissingStep == "missing" \in ran' /\ "missing" \notin ran

\* the rows of the group a of column key
Group(tbl, key, a) == SelectSeq(tbl, LAMBDA r : r[key] = a)

\* twice the median of the observed values of col in the group a
GroupMedian2(tbl, key, col, a) ==
    LET g == Group(tbl, key, a)
        n == Cardinality(Observed(g, col))
    IN  Kth(g, col, (n + 1) \div 2) + Kth(g, col, (n + 2) \div 2)

\* every row with a missing col has a key, and its group has an observed col
EveryGroupObserved(tbl, key, col) ==
    \A i \in 1..Len(tbl) :
        isna(tbl[i][col]) =>
            /\ ~isna(tbl[i][key])
            /\ Observed(Group(tbl, key, tbl[i][key]), col) # {}

FilledWithGroupMedian(pre, post, key, col) ==
    \A i \in 1..Len(pre) :
        (/\ isna(pre[i][col])
         /\ ~isna(pre[i][key])
         /\ Observed(Group(pre, key, pre[i][key]), col) # {})
            => post[i][col] = Num(GroupMedian2(pre, key, col, pre[i][key]), 2)

OnlyMissingReplaced(pre, post, cols) ==
    /\ Len(post) = Len(pre)
    /\ \A i \in 1..Len(pre) :
          /\ post[i].idx = pre[i].idx
          /\ \A c \in cols : ~isna(pre[i][c]) => post[i][c] = pre[i][c]

\* C5: an imputation step (group median, mode, mean) leaves every cell that
\* was not missing as it was, changes no other column, and keeps the number
\* and the order of the rows.
C5_OnlyMissingReplaced ==
    [][/\ PricesStep =>
             /\ OnlyMissingReplaced(planes, planes', {"Airline", "Price"})
             /\ Column(planes', "Airline") = Column(planes, "Airline")
       /\ SubgroupStep =>
             /\ OnlyMissingReplaced(salaries, salaries', {"Experience", "Salary_USD"})
             /\ Column(salaries', "Experience") = Column(salaries, "Experience")
       /\ ModeStep =>
             /\ OnlyMissingReplaced(salaries, salaries', {"Experience", "Salary_USD"})
             /\ Column(salaries', "Salary_USD") = Column(salaries, "Salary_USD")
       /\ MissingStep =>
             /\ OnlyMissingReplaced(df, df', {"Name", "Age", "Salary", "Department"})
             /\ Column(df', "Department") = Column(df, "Department")]_vars

\* a fill that replaced a missing price next to an observed one it kept
C5_Witness ==
    /\ ran = {"prices"}
    /\ \E i, j \in 1..Len(before) :
          /\ isna(before[i].Price)
          /\ ~isna(planes[i].Price)
          /\ ~isna(before[j].Price)
          /\ planes[j].Price # planes[i].Price

-----------------------------------------------------------------------------
(* Quartile binning with pd.cut                                            *)

MaxRowsBinning == 4

salary_labels ==
    <<Str(<<"e", "n", "t", "r", "y">>), Str(<<"m", "i", "d">>),
      Str(<<"s", "e", "n", "i", "o", "r">>), Str(<<"e", "x", "e", "c">>)>>

\* pd.cut raises ValueError unless the edges increase and are unique (an edge
\* that is NaN fails the test as well)
BinsValid(bins) ==
    /\ \A i \in 1..(Len(bins) - 1) : Le(bins[i], bins[i + 1])
    /\ Cardinality({bins[i] : i \in 1..Len(bins)}) = Len(bins)

\* bins.searchsorted(x, side="left"): the number of edges below x
SearchSortedLeft(bins, x) == Cardinality({i \in 1..Len(bins) : Lt(bins[i], x)})

\* np.searchsorted(bins, x, side="right"), as pd.cut uses with right=False
SearchSortedRight(bins, x) == Cardinality({i \in 1..Len(bins) : Le(bins[i], x)})

\* pd.cut with right=False: bins closed on the left
CutLabelLeftClosed(x, bins, labels) ==
    LET ids == SearchSortedRight(bins, x)
    IN  IF isna(x) \/ ids = 0 \/ ids = Len(bins) THEN NaN ELSE labels[ids]

\* pd.cut with include_lowest=True: the first edge belongs to the first bin
CutLabelIncludeLowest(x, bins, labels) ==
    LET ids == SearchSortedLeft(bins, x)
    IN  IF isna(x) \/ ids = Len(bins) THEN NaN
        ELSE IF ids = 0 THEN (IF x = bins[1] THEN labels[1] ELSE NaN)
        ELSE labels[ids]

\* the label pd.cut gives one value: intervals (e[i], e[i+1]], NaN outside
\* (e[1], e[last]] and for a missing value
CutLabel(x, bins, labels) ==
    LET ids == SearchSortedLeft(bins, x)
    IN  IF isna(x) \/ ids = 0 \/ ids = Len(bins) THEN NaN ELSE labels[ids]

BinningCells == {Whole(v) : v \in {-1, 0, 1, 2, 3}} \cup {NaN}

InitBinning ==
    /\ \E n \in 0..MaxRowsBinning :
         \E f \in [1..n -> BinningCells] :
            salaries = [i \in 1..n |-> [idx |-> i - 1, Salary_USD |-> f[i]]]
    /\ planes = <<>>
    /\ df = <<>>
    /\ before = salaries
    /\ ns = [twenty_fifth |-> NaN, salaries_median |-> NaN, seventy_fifth |-> NaN,
             salary_ranges |-> <<>>]
    /\ ran = {}
    /\ err = ""

\* notebook cell "Calculating salary percentiles" (notes 9)
CalculatingSalaryPercentiles ==
    /\ "percentiles" \notin ran
    /\ ns' = [ns EXCEPT !.twenty_fifth = quantile(Column(salaries, "Salary_USD"), 1, 4),
                        !.salaries_median = median(Column(salaries, "Salary_USD")),
                        !.seventy_fifth = quantile(Column(salaries, "Salary_USD"), 3, 4)]
    /\ ran' = ran \cup {"percentiles"}
    /\ UNCHANGED <<salaries, planes, df, before, err>>

\* notebook cell "Categorizing salaries" (notes 9-10): the bins, then pd.cut
CategorizingSalaries ==
    /\ "percentiles" \in ran
    /\ "cut" \notin ran
    /\ LET salary_ranges == <<Whole(0), ns.twenty_fifth, ns.salaries_median,
                              ns.seventy_fifth, max(Column(salaries, "Salary_USD"))>>
       IN  /\ ns' = [ns EXCEPT !.salary_ranges = salary_ranges]
           /\ \/ /\ BinsValid(salary_ranges)
                 /\ salaries' =
                       [i \in 1..Len(salaries) |->
                           [idx |-> salaries[i].idx,
                            Salary_USD |-> salaries[i].Salary_USD,
                            salary_level |->
                                CutLabel(salaries[i].Salary_USD, salary_ranges,
                                         salary_labels)]]
                 /\ err' = ""
              \/ /\ ~BinsValid(salary_ranges)
                 /\ salaries' = salaries
                 /\ err' = "ValueError"
    /\ before' = salaries
    /\ ran' = ran \cup {"cut"}
    /\ UNCHANGED <<planes, df>>

NextBinning ==
    \/ CalculatingSalaryPercentiles
    \/ CategorizingSalaries

SpecBinning == InitBinning /\ [][NextBinning]_vars

Labelled(tbl) ==
    \A i \in 1..Len(tbl) :
        ~isna(tbl[i].Salary_USD) =>
            \E k \in 1..Len(salary_labels) : tbl[i].salary_level = salary_labels[k]

\* C9 as stated: after the cut every row with a non-missing Salary_USD holds
\* one of the four labels, for every non-empty column.
C9_EveryRowLabelled ==
    ("cut" \in ran /\ Len(before) > 0) => (err = "" /\ Labelled(salaries))

\* all observed values positive and the four upper edges strictly increasing
PositiveDistinctQuartiles(tbl, col) ==
    /\ Observed(tbl, col) # {}
    /\ \A i \in Observed(tbl, col) : tbl[i][col].n > 0
    /\ Quartile4(tbl, col, 1) < Quartile4(tbl, col, 2)
    /\ Quartile4(tbl, col, 2) < Quartile4(tbl, col, 3)
    /\ Quartile4(tbl, col, 3) < 4 * Kth(tbl, col, Cardinality(Observed(tbl, col)))

\* C9 amended: after the cut every row with a non-missing Salary_USD holds
\* one of the four labels, for every column whose values are all above 0
\* and whose 25th percentile, median, 75th percentile and maximum differ.
C9_LabelledWhenEdgesIncrease ==
    ("cut" \in ran /\ PositiveDistinctQuartiles(before, "Salary_USD")) =>
        (err = "" /\ Labelled(salaries))

\* a cut that succeeded on a column with a missing value and gave three
\* different labels, the lowest and the highest among them
C9_Witness ==
    /\ "cut" \in ran
    /\ PositiveDistinctQuartiles(before, "Salary_USD")
    /\ err = ""
    /\ isna_sum(before, "Salary_USD") > 0
    /\ \E i, j, k \in 1..Len(salaries) :
          /\ salaries[i].salary_level = salary_labels[1]
          /\ salaries[j].salary_level = salary_labels[4]
          /\ salaries[k].salary_level \in {salary_labels[2], salary_labels[3]}

-----------------------------------------------------------------------------
(* The notebook's duration cells: Duration_Category and the conversion of  *)
(* Duration to float, two cells that act on the same planes table          *)

MaxRowsNotebook == 2

Digits == <<"0", "1", "2", "3", "4", "5", "6", "7", "8", "9">>

\* str(n) for 0 <= n <= 99
Decimal(n) ==
    IF n < 10 THEN <<Digits[n + 1]>> ELSE <<Digits[(n \div 10) + 1], Digits[(n % 10) + 1]>>

\* the Duration text of H hours and, when M >= 0, M minutes: "19h", "5h 25m"
DurationText(H, M) ==
    IF M < 0 THEN Decimal(H) \o <<"h">>
    ELSE Decimal(H) \o <<"h", " ">> \o Decimal(M) \o <<"m">>

\* planes["Duration"].head() as the notebook shows it
Preview ==
    {DurationText(19, -1), DurationText(5, 25), DurationText(4, 45),
     DurationText(2, 25), DurationText(15, 30)}

\* one alternative of a pattern: "^1h" is anchored, "10h" is not
Anchored(text) == [anchored |-> TRUE, lit |-> text]

Anywhere(text) == [anchored |-> FALSE, lit |-> text]

flight_categories ==
    <<Str(<<"S", "h", "o", "r", "t", "-", "h", "a", "u", "l">>),
      Str(<<"M", "e", "d", "i", "u", "m">>),
      Str(<<"L", "o", "n", "g", "-", "h", "a", "u", "l">>)>>

short_flights == [k \in 1..5 |-> Anchored(<<Digits[k], "h">>)]

medium_flights == [k \in 1..5 |-> Anchored(<<Digits[k + 5], "h">>)]

long_flights == [k \in 1..7 |-> Anywhere(<<"1", Digits[k], "h">>)]

ExtremeDuration ==
    Str(<<"E", "x", "t", "r", "e", "m", "e", " ", "d", "u", "r", "a", "t", "i", "o", "n">>)

\* the literal lit occurs in s at position p
MatchAt(s, lit, p) ==
    /\ p + Len(lit) - 1 <= Len(s)
    /\ \A k \in 1..Len(lit) : s[p + k - 1] = lit[k]

\* variant of the search that ignores the ^ anchor
SearchUnanchored(pat, s) ==
    \E j \in 1..Len(pat) : \E p \in 1..Len(s) : MatchAt(s, pat[j].lit, p)

\* re.search(pat, s) for an alternation of literals, each anchored or not
Search(pat, s) ==
    \E j \in 1..Len(pat) :
        IF pat[j].anchored THEN MatchAt(s, pat[j].lit, 1)
        ELSE \E p \in 1..Len(s) : MatchAt(s, pat[j].lit, p)

\* Series.str.contains(pat)
str_contains(xs, pat) == [i \in 1..Len(xs) |-> Search(pat, xs[i].s)]

\* np.select(condlist, choicelist, default): the first condition that holds
np_select(condlist, choicelist, default) ==
    [i \in 1..Len(condlist[1]) |->
        IF \E k \in 1..Len(condlist) : condlist[k][i]
        THEN choicelist[CHOOSE k \in 1..Len(condlist) :
                            /\ condlist[k][i]
                            /\ \A j \in 1..(k - 1) : ~condlist[j][i]]
        ELSE default]

\* variant of the replacement that leaves the text as it is
RemoveNothing(s, ch) == s

\* str.replace(ch, ""): every occurrence of the character removed
RemoveChar(s, ch) == SelectSeq(s, LAMBDA c : c # ch)

\* float(s) succeeds: here, for a non-empty string of digits
IsFloatText(s) == s # <<>> /\ \A p \in 1..Len(s) : \E d \in 1..10 : Digits[d] = s[p]

RECURSIVE DecimalValue(_)
DecimalValue(s) ==
    IF s = <<>> THEN 0
    ELSE 10 * DecimalValue(SubSeq(s, 1, Len(s) - 1))
            + (CHOOSE d \in 0..9 : Digits[d + 1] = s[Len(s)])

\* the Series holds strings (the .str accessor is available)
IsStrColumn(xs) == \A i \in 1..Len(xs) : xs[i].t = "str"

InitNotebook ==
    /\ \/ \E H \in 0..99, M \in -1..59 :
             planes = <<[idx |-> 0, Duration |-> Str(DurationText(H, M))]>>
       \/ \E n \in 1..MaxRowsNotebook :
             \E f \in [1..n -> Preview] :
                planes = [i \in 1..n |-> [idx |-> i - 1, Duration |-> Str(f[i])]]
    /\ salaries = <<>>
    /\ df = <<>>
    /\ before = planes
    /\ ns = [csv |-> planes]
    /\ ran = {}
    /\ err = ""

\* notebook cell "Adding duration categories"; the .str accessor raises on a
\* column that no longer holds strings
AddingDurationCategories ==
    /\ "categories" \notin ran
    /\ \/ /\ IsStrColumn(Column(planes, "Duration"))
          /\ LET conditions ==
                    <<str_contains(Column(planes, "Duration"), short_flights),
                      str_contains(Column(planes, "Duration"), medium_flights),
                      str_contains(Column(planes, "Duration"), long_flights)>>
                 cat == np_select(conditions, flight_categories, ExtremeDuration)
             IN  planes' = [i \in 1..Len(planes) |->
                              [idx |-> planes[i].idx,
                               Duration |-> planes[i].Duration,
                               Duration_Category |-> cat[i]]]
          /\ err' = ""
       \/ /\ ~IsStrColumn(Column(planes, "Duration"))
          /\ planes' = planes
          /\ err' = "AttributeError"
    /\ before' = planes
    /\ ran' = ran \cup {"categories"}
    /\ UNCHANGED <<salaries, df, ns>>

\* notebook cell "Flight duration": the column without its "h" is stored
\* first, then astype(float) converts it or raises and leaves the stored text;
\* the cell may be executed again
FlightDuration ==
    /\ "duration again" \notin ran
    /\ \/ /\ ~IsStrColumn(Column(planes, "Duration"))
          /\ planes' = planes
          /\ err' = "AttributeError"
       \/ /\ IsStrColumn(Column(planes, "Duration"))
          /\ LET stripped == [i \in 1..Len(planes) |->
                                [planes[i] EXCEPT !.Duration =
                                    Str(RemoveChar(planes[i].Duration.s, "h"))]]
             IN  \/ /\ \A i \in 1..Len(stripped) : IsFloatText(stripped[i].Duration.s)
                    /\ planes' = [i \in 1..Len(stripped) |->
                                    [stripped[i] EXCEPT !.Duration =
                                        Whole(DecimalValue(stripped[i].Duration.s))]]
                    /\ err' = ""
                 \/ /\ \E i \in 1..Len(stripped) : ~IsFloatText(stripped[i].Duration.s)
                    /\ planes' = stripped
                    /\ err' = "ValueError"
    /\ before' = planes
    /\ ran' = ran \cup (IF "duration" \in ran THEN {"duration again"} ELSE {"duration"})
    /\ UNCHANGED <<salaries, df, ns>>

NextNotebook ==
    \/ AddingDurationCategories
    \/ FlightDuration

SpecNotebook == InitNotebook /\ [][NextNotebook]_vars

-----------------------------------------------------------------------------
(* Claims about the duration cells.  The hours of a Duration text are read *)
(* off as the number written before its "h".                               *)

HoursOf(s) ==
    LET p == CHOOSE q \in 1..Len(s) : s[q] = "h" /\ \A r \in 1..(q - 1) : s[r] # "h"
    IN  DecimalValue(SubSeq(s, 1, p - 1))

HasMinutes(s) == s[Len(s)] = "m"

CategoryByHours(H) ==
    IF 0 <= H /\ H <= 4 THEN flight_categories[1]
    ELSE IF 5 <= H /\ H <= 9 THEN flight_categories[2]
    ELSE IF 10 <= H /\ H <= 16 THEN flight_categories[3]
    ELSE ExtremeDuration

\* C10: for a Duration '<H>h' or '<H>h <M>m' with 0 <= H <= 99, the category
\* is Short-haul iff H <= 4, Medium iff 5 <= H <= 9, Long-haul iff
\* 10 <= H <= 16 and Extreme duration otherwise.
C10_CategoryByHours ==
    ran = {"categories"} =>
        /\ err = ""
        /\ \A i \in 1..Len(planes) :
              /\ HoursOf(before[i].Duration.s) \in 0..99
              /\ planes[i].Duration_Category =
                    CategoryByHours(HoursOf(before[i].Duration.s))

\* "10h 40m", which holds the text "0h" after its first character, is Long-haul
C10_Witness ==
    /\ ran = {"categories"}
    /\ before = <<[idx |-> 0, Duration |-> Str(DurationText(10, 40))]>>
    /\ planes[1].Duration_Category = flight_categories[3]

CategoriesStep == "categories" \in ran' /\ "categories" \notin ran

DurationStep == "duration" \in ran' /\ "duration" \notin ran

\* the category cell succeeded with the categories the loaded Durations give
CategoriesAsLoaded ==
    /\ err' = ""
    /\ \A i \in 1..Len(planes') :
          /\ "Duration_Category" \in DOMAIN planes'[i]
          /\ planes'[i].Duration_Category =
                CategoryByHours(HoursOf(ns.csv[i].Duration.s))

\* the conversion cell did what it does on the loaded table: floats when no
\* Duration has minutes, else ValueError and the texts without their "h"
DurationAsLoaded ==
    IF \E i \in 1..Len(ns.csv) : HasMinutes(ns.csv[i].Duration.s)
    THEN /\ err' = "ValueError"
         /\ \A i \in 1..Len(planes') :
               /\ planes'[i].Duration.t = "str"
               /\ \A p \in 1..Len(planes'[i].Duration.s) : planes'[i].Duration.s[p] # "h"
               /\ Len(planes'[i].Duration.s) = Len(ns.csv[i].Duration.s) - 1
    ELSE /\ err' = ""
         /\ \A i \in 1..Len(planes') :
               planes'[i].Duration = Whole(HoursOf(ns.csv[i].Duration.s))

\* C8 as stated: whether a cell succeeds and what it produces do not depend
\* on the cells executed before it.
C8_CellsIndependent ==
    [][/\ CategoriesStep => CategoriesAsLoaded
       /\ DurationStep => DurationAsLoaded]_vars

\* C8 amended: the cells share the planes table.  The category cell gives the
\* categories of the loaded Durations when it runs before the conversion
\* cell; after it, it raises (Duration is float) or puts every row in
\* 'Extreme duration' (the "h" is gone).  The conversion cell's first run
\* does not depend on the category cell.
C8_CellsShareTable ==
    [][/\ (CategoriesStep /\ "duration" \notin ran) => CategoriesAsLoaded
       /\ (CategoriesStep /\ "duration" \in ran) =>
             \/ err' = "AttributeError" /\ planes' = planes
             \/ /\ err' = ""
                /\ \A i \in 1..Len(planes') :
                      planes'[i].Duration_Category = ExtremeDuration
       /\ DurationStep => DurationAsLoaded]_vars

\* the category cell, run after the failed conversion, called "5h 25m" extreme
C8_Witness ==
    /\ {"categories", "duration"} \subseteq ran
    /\ \E i \in 1..Len(planes) :
          /\ ns.csv[i].Duration = Str(DurationText(5, 25))
          /\ "Duration_Category" \in DOMAIN planes[i]
          /\ planes[i].Duration_Category = ExtremeDuration

-----------------------------------------------------------------------------
(* Cross-tabulation.  pd.crosstab(index, columns) groups the rows by the   *)
(* pair of keys, rows with a missing key left out, and unstacks the result *)
(* into a table with one row per index value and one column per columns    *)
(* value: counts with 0 for an absent pair, or, with values= and aggfunc=, *)
(* the aggregate of each pair's values with NaN for an absent pair.        *)

MaxRowsCrosstab == 3

\* the pairs of keys of the rows in which both keys are present
CrossTabKeys(tbl, a, b) ==
    {<<tbl[i][a], tbl[i][b]>> : i \in {j \in 1..Len(tbl) : ~isna(tbl[j][a]) /\ ~isna(tbl[j][b])}}

\* the values of col in the rows of the pair k
CrossTabValues(tbl, a, b, col, k) ==
    Column(BoolIndex(tbl, [i \in 1..Len(tbl) |-> tbl[i][a] = k[1] /\ tbl[i][b] = k[2]]), col)

\* variant of the count that looks at the index key only
CrossTabCountIndexOnly(tbl, a, b, k) ==
    Cardinality({i \in 1..Len(tbl) : tbl[i][a] = k[1] /\ ~isna(tbl[i][b])})

\* aggfunc=len: the number of rows of the pair k
CrossTabCount(tbl, a, b, k) ==
    Cardinality({i \in 1..Len(tbl) : tbl[i][a] = k[1] /\ tbl[i][b] = k[2]})

\* unstack: the table over the index and columns values of the kept pairs
Unstack(kept, agged, fill_value) ==
    LET index   == {k[1] : k \in kept}
        columns == {k[2] : k \in kept}
    IN  [index |-> index, columns |-> columns,
         cell |-> [k \in index \X columns |-> IF k \in kept THEN agged[k] ELSE fill_value]]

\* pd.crosstab(tbl[a], tbl[b])
crosstab(tbl, a, b) ==
    LET keys == CrossTabKeys(tbl, a, b)
    IN  Unstack(keys, [k \in keys |-> Whole(CrossTabCount(tbl, a, b, k))], Whole(0))

\* pd.crosstab(tbl[a], tbl[b], values=tbl[col], aggfunc="median"): the pairs
\* whose aggregate is NaN are dropped before unstacking
crosstab_median(tbl, a, b, col) ==
    LET keys  == CrossTabKeys(tbl, a, b)
        agged == [k \in keys |-> median(CrossTabValues(tbl, a, b, col, k))]
    IN  Unstack({k \in keys : ~isna(agged[k])}, agged, NaN)

\* pd.crosstab(tbl[a], tbl[b], values=tbl[col], aggfunc="mean")
crosstab_mean(tbl, a, b, col) ==
    LET keys  == CrossTabKeys(tbl, a, b)
        agged == [k \in keys |-> mean(CrossTabValues(tbl, a, b, col, k))]
    IN  Unstack({k \in keys : ~isna(agged[k])}, agged, NaN)

\* the Source -> Destination routes of the flights table, and its prices
Routes ==
    ({Str(<<"K">>), Str(<<"C">>)} \X {Str(<<"D">>), Str(<<"M">>)})
        \cup {<<NaN, Str(<<"D">>)>>, <<Str(<<"K">>), NaN>>}

Prices == {Whole(1), Whole(3), NaN}

\* the rows of the salaries table
SalaryRows ==
    [Company_Size : {Str(<<"S">>), NaN},
     Experience : {Str(<<"E", "N">>), Str(<<"S", "E">>)},
     Job_Category : {Str(<<"D", "S">>), Str(<<"M", "L">>)},
     Salary_USD : {Whole(1), Whole(3)}]

InitCrosstab ==
    /\ \E n \in 1..MaxRowsCrosstab :
         \/ \E k \in [1..n -> Routes], v \in [1..n -> Prices] :
               /\ planes = [i \in 1..n |->
                              [idx |-> i - 1, Source |-> k[i][1], Destination |-> k[i][2],
                               Price |-> v[i]]]
               /\ salaries = <<>>
         \/ \E r \in [1..n -> SalaryRows] :
               /\ salaries = [i \in 1..n |->
                                [idx |-> i - 1, Company_Size |-> r[i].Company_Size,
                                 Experience |-> r[i].Experience,
                                 Job_Category |-> r[i].Job_Category,
                                 Salary_USD |-> r[i].Salary_USD]]
               /\ planes = <<>>
    /\ df = <<>>
    /\ before = <<>>
    /\ ns = [out |-> <<>>]
    /\ ran = {}
    /\ err = ""

\* notes, 7. Cross-Tabulation: pd.crosstab(df["Source"], df["Destination"])
CrossTabulation ==
    /\ planes # <<>>
    /\ ran = {}
    /\ ns' = [out |-> <<crosstab(planes, "Source", "Destination")>>]
    /\ ran' = {"crosstab"}
    /\ UNCHANGED <<salaries, planes, df, before, err>>

\* notes, 8. Enhancing Cross-Tabulation: values=df["Price"], aggfunc="median"
EnhancingCrossTabulation ==
    /\ planes # <<>>
    /\ ran = {}
    /\ ns' = [out |-> <<crosstab_median(planes, "Source", "Destination", "Price")>>]
    /\ ran' = {"crosstab median"}
    /\ UNCHANGED <<salaries, planes, df, before, err>>

\* notebook cell: the three tables it prints, in order
CrossTabulate ==
    /\ salaries # <<>>
    /\ ran = {}
    /\ ns' = [out |-> <<crosstab(salaries, "Company_Size", "Experience"),
                        crosstab(salaries, "Job_Category", "Company_Size"),
                        crosstab_mean(salaries, "Job_Category", "Company_Size", "Salary_USD")>>]
    /\ ran' = {"crosstabs"}
    /\ UNCHANGED <<salaries, planes, df, before, err>>

NextCrosstab ==
    \/ CrossTabulation
    \/ EnhancingCrossTabulation
    \/ CrossTabulate

SpecCrosstab == InitCrosstab /\ [][NextCrosstab]_vars

-----------------------------------------------------------------------------
(* Claims about cross-tabulation.  The counts and aggregates are restated  *)
(* over the rows of each pair: the median by rank, the mean by its sum.    *)

\* the rows of the pair (x, y)
PairRows(tbl, a, b, x, y) == SelectSeq(tbl, LAMBDA r : r[a] = x /\ r[b] = y)

\* the sum of the cells of a table of counts
RECURSIVE SumCells(_, _)
SumCells(cell, S) ==
    IF S = {} THEN 0
    ELSE LET k == CHOOSE p \in S : TRUE
         IN  cell[k].n + SumCells(cell, S \ {k})

\* the sum of the observed values of col
RECURSIVE Total(_, _)
Total(tbl, col) ==
    IF tbl = <<>> THEN 0
    ELSE (IF isna(Head(tbl)[col]) THEN 0 ELSE Head(tbl)[col].n) + Total(Tail(tbl), col)

CellsAreCounts(ct, tbl, a, b) ==
    /\ \A x \in ct.index, y \in ct.columns :
          ct.cell[<<x, y>>] = Whole(Len(PairRows(tbl, a, b, x, y)))
    /\ SumCells(ct.cell, DOMAIN ct.cell) =
          Cardinality({i \in 1..Len(tbl) : ~isna(tbl[i][a]) /\ ~isna(tbl[i][b])})

CellsAreMedians(ct, tbl, a, b, col) ==
    \A x \in ct.index, y \in ct.columns :
        LET g == PairRows(tbl, a, b, x, y)
            n == Cardinality(Observed(g, col))
            c == ct.cell[<<x, y>>]
        IN  IF n = 0 THEN isna(c)
            ELSE /\ c.t = "num"
                 /\ 2 * c.n = c.d * (Kth(g, col, (n + 1) \div 2) + Kth(g, col, (n + 2) \div 2))

CellsAreMeans(ct, tbl, a, b, col) ==
    \A x \in ct.index, y \in ct.columns :
        LET g == PairRows(tbl, a, b, x, y)
            n == Cardinality(Observed(g, col))
            c == ct.cell[<<x, y>>]
        IN  IF n = 0 THEN isna(c)
            ELSE c.t = "num" /\ n * c.n = c.d * Total(g, col)

\* C11: each cell of pd.crosstab(A, B) is the number of rows with A = a and
\* B = b, and the cells sum to the number of rows with both A and B present;
\* with values= and aggfunc= each cell is the median / mean of the values of
\* exactly those rows.
C11_CrosstabCounts ==
    /\ "crosstab" \in ran => CellsAreCounts(ns.out[1], planes, "Source", "Destination")
    /\ "crosstab median" \in ran =>
          CellsAreMedians(ns.out[1], planes, "Source", "Destination", "Price")
    /\ "crosstabs" \in ran =>
          /\ CellsAreCounts(ns.out[1], salaries, "Company_Size", "Experience")
          /\ CellsAreCounts(ns.out[2], salaries, "Job_Category", "Company_Size")
          /\ CellsAreMeans(ns.out[3], salaries, "Job_Category", "Company_Size", "Salary_USD")

\* a table of counts with a cell of two rows and a row left out for its
\* missing key
C11_Witness ==
    /\ "crosstab" \in ran
    /\ \E i \in 1..Len(planes) : isna(planes[i].Source) \/ isna(planes[i].Destination)
    /\ \E k \in DOMAIN ns.out[1].cell : ns.out[1].cell[k] = Whole(2)

-----------------------------------------------------------------------------
(* The sample cell of the notebook: its dataset, and the label-encoding    *)
(* step that follows the missing-data step                                 *)

MaxRowsSample == 3

\* the sample dataset
data ==
    [Name |-> <<Str(<<"A", "l", "i", "c", "e">>), Str(<<"B", "o", "b">>),
                Str(<<"C", "h", "a", "r", "l", "i", "e">>), Str(<<"D", "a", "v", "i", "d">>),
                NaN>>,
     Age |-> <<Whole(25), NaN, Whole(35), Whole(40), Whole(29)>>,
     Salary |-> <<Whole(50000), Whole(60000), NaN, Whole(80000), Whole(70000)>>,
     Department |-> <<Str(<<"H", "R">>), Str(<<"I", "T">>),
                      Str(<<"F", "i", "n", "a", "n", "c", "e">>), Str(<<"I", "T">>),
                      Str(<<"H", "R">>)>>]

\* pd.DataFrame(data): one row per position, index 0..n-1
DataFrame(d) ==
    [i \in 1..Len(d.Name) |->
        [idx |-> i - 1, Name |-> d.Name[i], Age |-> d.Age[i], Salary |-> d.Salary[i],
         Department |-> d.Department[i]]]

\* shorter datasets over values of the sample
SampleValues ==
    [Name : {data.Name[2], NaN},
     Age : {data.Age[1], NaN},
     Salary : {data.Salary[1]},
     Department : {data.Department[i] : i \in 1..Len(data.Department)}]

InitSample ==
    /\ \/ df = DataFrame(data)
       \/ \E n \in 1..MaxRowsSample : \E r \in [1..n -> SampleValues] :
             df = DataFrame([Name |-> [i \in 1..n |-> r[i].Name],
                             Age |-> [i \in 1..n |-> r[i].Age],
                             Salary |-> [i \in 1..n |-> r[i].Salary],
                             Department |-> [i \in 1..n |-> r[i].Department]])
    /\ planes = <<>>
    /\ salaries = <<>>
    /\ before = df
    /\ ns = [dataset |-> "df", dict |-> <<>>]
    /\ ran = {}
    /\ err = ""

\* variant of the encoder that ranks a label by its length
LabelEncodeByLength(xs) ==
    [i \in 1..Len(xs) |->
        Whole(Cardinality({c \in {xs[j] : j \in 1..Len(xs)} : Len(c.s) < Len(xs[i].s)}))]

\* LabelEncoder().fit_transform(y): classes_ are the distinct labels in
\* sorted order, and a label's code is its position among them
LabelEncode(xs) ==
    [i \in 1..Len(xs) |->
        Whole(Cardinality({c \in {xs[j] : j \in 1..Len(xs)} : c # xs[i] /\ CellLe(c, xs[i])}))]

\* first cell, "Encoding Categorical Data": reached when the missing-data
\* step raised nothing
EncodingCategoricalData ==
    /\ ns.dataset = "df"
    /\ "missing" \in ran
    /\ "encoding" \notin ran
    /\ err = ""
    /\ df' = SetColumn(df, "Department", LabelEncode(Column(df, "Department")))
    /\ before' = df
    /\ ran' = ran \cup {"encoding"}
    /\ UNCHANGED <<planes, salaries, ns, err>>

NextSample ==
    \/ HandlingMissingData
    \/ EncodingCategoricalData

SpecSample == InitSample /\ [][NextSample]_vars

-----------------------------------------------------------------------------
(* Claims about the sample cell                                            *)

EncodingStep == "encoding" \in ran' /\ "encoding" \notin ran

\* C12: after the label-encoding step two rows have the same Department code
\* exactly when they had the same Department, and the codes are exactly
\* 0..k-1 for k distinct departments.
C12_LabelEncoding ==
    [][EncodingStep =>
          LET pre  == Column(df, "Department")
              post == Column(df', "Department")
              k    == Cardinality({pre[i] : i \in 1..Len(pre)})
          IN  /\ Len(post) = Len(pre)
              /\ \A i, j \in 1..Len(pre) : (post[i] = post[j]) <=> (pre[i] = pre[j])
              /\ {post[i] : i \in 1..Len(post)} = {Whole(c) : c \in 0..(k - 1)}]_vars

\* the sample dataset encoded: Finance 0, HR 1, IT 2
C12_Witness ==
    /\ "encoding" \in ran
    /\ Column(df, "Department") = <<Whole(1), Whole(2), Whole(0), Whole(2), Whole(1)>>

\* C13: the missing-data step replaces each missing Age and Salary by the
\* mean of the observed values of its column and each missing Name by
\* 'Unknown', so that no cell of the table is missing after it.
C13_SampleCellFilled ==
    [][MissingStep =>
          /\ err' = ""
          /\ Len(df') = Len(df)
          /\ \A i \in 1..Len(df) :
                /\ \A c \in {"Name", "Age", "Salary", "Department"} : ~isna(df'[i][c])
                /\ isna(df[i].Name) => df'[i].Name = Unknown
                /\ \A c \in {"Age", "Salary"} :
                      isna(df[i][c]) =>
                          Cardinality(Observed(df, c)) * df'[i][c].n
                              = df'[i][c].d * Total(df, c)]_vars

-----------------------------------------------------------------------------
(* Further claims about the five-percent drop cell                         *)

\* an execution of the drop cell, the first or the second
DropStep == ran' # ran /\ ("dropna" \in ran' \ ran \/ "dropna again" \in ran' \ ran)

\* the index labels of the rows with a missing value in column c
MissingIn(tbl, c) == {tbl[i].idx : i \in {j \in 1..Len(tbl) : tbl[j][c].t = "nan"}}

\* C14: the drop step never increases the number of missing values of any
\* column, selected or not, and decreases it when a dropped row was missing
\* in that column.
C14_MissingNeverIncreases ==
    [][DropStep =>
          \A c \in PlanesColumns :
              /\ Cardinality(MissingIn(planes', c)) <= Cardinality(MissingIn(planes, c))
              /\ (MissingIn(planes, c) \ Index(planes') # {}) =>
                    Cardinality(MissingIn(planes', c)) < Cardinality(MissingIn(planes, c))]_vars

\* a column above the threshold lost some of its missing values with the
\* rows dropped for another column, and kept others
C14_Witness ==
    /\ ran = {"dropna"}
    /\ \E c \in PlanesColumns \ ns.cols_to_drop :
          /\ MissingIn(planes, c) # {}
          /\ Cardinality(MissingIn(planes, c)) < Cardinality(MissingIn(before, c))

\* C18: the drop step removes at most five percent of the table's rows.
C18_AtMostFivePercentRemoved ==
    [][DropStep => 20 * (Len(planes) - Len(planes')) <= Len(planes)]_vars

\* C19 as stated: a second execution of the cell on the table the first one
\* produced removes no further rows.
C19_RerunIdempotent ==
    [][("dropna again" \in ran' \ ran) => planes' = planes]_vars

\* C19 amended: before the second execution the columns the first one
\* selected have no missing value, and the second execution removes exactly
\* the rows with a missing value in a column that was above the first
\* threshold and is at most five percent of the remaining rows.
C19_RerunDropsNewlySelected ==
    [][("dropna again" \in ran' \ ran) =>
          LET newly == {c \in PlanesColumns \ ns.cols_to_drop :
                           20 * Cardinality(MissingIn(planes, c)) <= Len(planes)}
          IN  /\ \A c \in ns.cols_to_drop : MissingIn(planes, c) = {}
              /\ Index(planes) \ Index(planes') = UNION {MissingIn(planes, c) : c \in newly}
              /\ InOrder(planes', planes)]_vars

\* a second execution that removed a row
C19_Witness ==
    /\ "dropna again" \in ran
    /\ Len(planes) < Len(before)

-----------------------------------------------------------------------------
(* Converting Total_Stops to a number                                      *)

MaxRowsStops == 3

MaxStops == 4

\* the stops text of n stops: "non-stop", "1 stop", "2 stops", ...
StopsText(n) ==
    IF n = 0 THEN <<"n", "o", "n", "-", "s", "t", "o", "p">>
    ELSE IF n = 1 THEN <<"1", " ", "s", "t", "o", "p">>
    ELSE Decimal(n) \o <<" ", "s", "t", "o", "p", "s">>

\* Series.str.replace(pat, repl) with a literal pattern: the occurrences of
\* pat from left to right, not overlapping, replaced by repl
RECURSIVE str_replace(_, _, _)
str_replace(s, pat, repl) ==
    IF s = <<>> THEN <<>>
    ELSE IF MatchAt(s, pat, 1)
         THEN repl \o str_replace(SubSeq(s, Len(pat) + 1, Len(s)), pat, repl)
         ELSE <<Head(s)>> \o str_replace(Tail(s), pat, repl)

\* Series.replace(to_replace, value): the cells equal to to_replace as a whole
replace(xs, to_replace, value) ==
    [i \in 1..Len(xs) |-> IF xs[i] = to_replace THEN value ELSE xs[i]]

\* int(s) succeeds: here, for a non-empty string of digits
IsIntText(s) == s # <<>> /\ \A p \in 1..Len(s) : \E d \in 1..10 : Digits[d] = s[p]

\* xs.str.replace(" stops", "").replace("non-stop", "0"), before astype(int)
StopsReplaced(xs) ==
    replace([i \in 1..Len(xs) |->
                Str(str_replace(xs[i].s, <<" ", "s", "t", "o", "p", "s">>, <<>>))],
            Str(StopsText(0)), Str(<<"0">>))

\* astype(int) raises nothing on xs
AllIntText(xs) == \A i \in 1..Len(xs) : IsIntText(xs[i].s)

InitStops ==
    /\ \E n \in 1..MaxRowsStops : \E k \in [1..n -> 0..MaxStops] :
         \/ /\ planes = [i \in 1..n |-> [idx |-> i - 1, Total_Stops |-> Str(StopsText(k[i]))]]
            /\ df = <<>>
         \/ /\ df = [i \in 1..n |-> [idx |-> i - 1, stops_text |-> Str(StopsText(k[i]))]]
            /\ planes = <<>>
    /\ salaries = <<>>
    /\ before = <<>>
    /\ ns = [dataset |-> IF df = <<>> THEN "planes" ELSE "df"]
    /\ ran = {}
    /\ err = ""

\* notes, 4. Converting Total_Stops to Numeric; the column is assigned only
\* when astype(int) raised nothing
ConvertingTotalStops ==
    /\ ns.dataset = "planes"
    /\ ran = {}
    /\ LET xs == StopsReplaced(Column(planes, "Total_Stops"))
       IN  IF AllIntText(xs)
           THEN /\ planes' = SetColumn(planes, "Total_Stops",
                                [i \in 1..Len(xs) |-> Whole(DecimalValue(xs[i].s))])
                /\ err' = ""
           ELSE /\ planes' = planes
                /\ err' = "ValueError"
    /\ before' = planes
    /\ ran' = {"stops"}
    /\ UNCHANGED <<salaries, df, ns>>

\* README, Creating New Features, from text: the same expression, assigned
\* to the new column stops_numeric
FromText ==
    /\ ns.dataset = "df"
    /\ ran = {}
    /\ LET xs == StopsReplaced(Column(df, "stops_text"))
       IN  IF AllIntText(xs)
           THEN /\ df' = [i \in 1..Len(df) |->
                            [idx |-> df[i].idx, stops_text |-> df[i].stops_text,
                             stops_numeric |-> Whole(DecimalValue(xs[i].s))]]
                /\ err' = ""
           ELSE /\ df' = df
                /\ err' = "ValueError"
    /\ before' = df
    /\ ran' = {"stops_numeric"}
    /\ UNCHANGED <<salaries, planes, ns>>

NextStops ==
    \/ ConvertingTotalStops
    \/ FromText

SpecStops == InitStops /\ [][NextStops]_vars

\* the number of stops a stops text stands for
StopCount(s) == CHOOSE n \in 0..(MaxStops + 1) : StopsText(n) = s

\* C15: for the stops texts 'non-stop', '1 stop' and '<n> stops' the
\* conversion completes without error and yields the stop count.
C15_StopsConverted ==
    /\ "stops" \in ran =>
          /\ err = ""
          /\ \A i \in 1..Len(planes) :
                planes[i].Total_Stops = Whole(StopCount(before[i].Total_Stops.s))
    /\ "stops_numeric" \in ran =>
          /\ err = ""
          /\ \A i \in 1..Len(df) :
                df[i].stops_numeric = Whole(StopCount(df[i].stops_text.s))

-----------------------------------------------------------------------------
(* A further claim about the duration cells                                *)

\* C16: for Durations of the forms of the preview ('19h', '5h 25m') the cell
\* that removes the character 'h' and converts the column to float completes
\* without error and leaves a number in every row.
C16_DurationCleaned ==
    [][(DurationStep /\ "categories" \notin ran) =>
          /\ err' = ""
          /\ Len(planes') = Len(planes)
          /\ \A i \in 1..Len(planes') : planes'[i].Duration.t = "num"]_vars

-----------------------------------------------------------------------------
(* The notebook's cell "Removing outliers", which replaces planes by the   *)
(* subset of its rows whose Price is strictly inside the thresholds        *)

InitRemoving ==
    /\ \E n \in 0..MaxRowsOutlier :
         \E f \in [1..n -> SalaryCells] :
            planes = [i \in 1..n |-> [idx |-> i - 1, Price |-> f[i]]]
    /\ salaries = <<>>
    /\ df = <<>>
    /\ before = planes
    /\ ns = [upper |-> NaN, lower |-> NaN]
    /\ ran = {}
    /\ err = ""

\* the cell: the percentiles, the IQR and the thresholds of Price, then
\* planes = planes[(planes["Price"] > lower) & (planes["Price"] < upper)];
\* the cell may be executed again on the table it produced
RemovingOutliers ==
    /\ "removing again" \notin ran
    /\ LET lim == OutlierThresholds(planes, "Price")
       IN  /\ ns' = [upper |-> lim.upper_limit, lower |-> lim.lower_limit]
           /\ planes' = BoolIndex(planes, NoOutliersMask(planes, "Price",
                                                        lim.lower_limit, lim.upper_limit))
    /\ before' = planes
    /\ ran' = IF "removing" \in ran THEN ran \cup {"removing again"} ELSE {"removing"}
    /\ UNCHANGED <<salaries, df, err>>

NextRemoving == RemovingOutliers

SpecRemoving == InitRemoving /\ [][NextRemoving]_vars

\* C17: for a non-empty column the removal filter keeps every row whose
\* value lies between Q1 and Q3 inclusive, so the table after the removal is
\* never empty.
C17_MiddleKept ==
    ("removing" \in ran /\ before # <<>>) =>
        /\ \A i \in Observed(before, "Price") :
              (/\ Quartile4(before, "Price", 1) <= 4 * before[i].Price.n
               /\ 4 * before[i].Price.n <= Quartile4(before, "Price", 3))
                  => before[i].idx \in Index(planes)
        /\ planes # <<>>

-----------------------------------------------------------------------------
(* A further claim about the outlier filters                               *)

\* the index labels of the rows of tbl that are in sub and miss a value in col
MissingRowsIn(sub, tbl, col) ==
    {tbl[i].idx : i \in {j \in 1..Len(tbl) : tbl[j][col].t = "nan"}} \cap Index(sub)

\* C20: a row with a missing value in the tested column is never reported by
\* the detection filter and never kept by a removal filter.
C20_MissingInNeitherSet ==
    /\ "outliers" \in ran => MissingRowsIn(ns.outliers, salaries, "Salary_USD") = {}
    /\ "df_clean" \in ran => MissingRowsIn(ns.df_clean, salaries, "Salary_USD") = {}
    /\ "salaries_no_outliers" \in ran =>
          MissingRowsIn(ns.salaries_no_outliers, salaries, "Salary_USD") = {}

\* a table with a missing value, a reported outlier and kept rows
C20_Witness ==
    /\ {"outliers", "df_clean"} \subseteq ran
    /\ \E i \in 1..Len(salaries) : isna(salaries[i].Salary_USD)
    /\ ns.outliers # <<>>
    /\ ns.df_clean # <<>>
    /\ Len(ns.outliers) + Len(ns.df_clean) < Len(salaries)

-----------------------------------------------------------------------------
(* A further claim about the bins of pd.cut.  The comparisons of a value   *)
(* with an edge are restated on the fractions themselves.                  *)

\* x <= e and x = e for two numbers
AtMost(x, e) == x.n * e.d <= e.n * x.d

Equal(x, e) == x.n * e.d = e.n * x.d

\* C21: the bins are closed on the right: a value equal to an edge e_i
\* (i >= 1) receives the label of the bin that ends at e_i, the maximum the
\* top label and a value equal to the 25th percentile the lowest label, and a
\* value equal to or below e0 = 0 receives no label.
C21_RightClosedBins ==
    ("cut" \in ran /\ err = "") =>
        LET e == ns.salary_ranges
        IN  \A r \in 1..Len(salaries) :
                LET x == salaries[r].Salary_USD
                IN  ~isna(x) =>
                        /\ \A i \in 1..4 :
                              Equal(x, e[i + 1]) => salaries[r].salary_level = salary_labels[i]
                        /\ \A i \in 1..4 :
                              (~AtMost(x, e[i]) /\ AtMost(x, e[i + 1])) =>
                                  salaries[r].salary_level = salary_labels[i]
                        /\ AtMost(x, e[1]) => isna(salaries[r].salary_level)

\* a value equal to the median edge labelled "mid", the maximum labelled
\* "exec", and a value on the first edge 0 left without a label
C21_Witness ==
    /\ "cut" \in ran
    /\ err = ""
    /\ \E r \in 1..Len(salaries) :
          /\ salaries[r].Salary_USD = ns.salary_ranges[3]
          /\ salaries[r].salary_level = salary_labels[2]
    /\ \E r \in 1..Len(salaries) :
          /\ salaries[r].Salary_USD = ns.salary_ranges[5]
          /\ salaries[r].salary_level = salary_labels[4]
    /\ \E r \in 1..Len(salaries) :
          /\ salaries[r].Salary_USD = ns.salary_ranges[1]
          /\ isna(salaries[r].salary_level)

=============================================================================
